---- MODULE Spec2Model ----
(***************************************************************************)
(* A model of custom_components/icalendar/__init__.py: the iCalendar view  *)
(* of Home Assistant.  async_setup registers one iCalendarView instance;   *)
(* every HTTP request runs the coroutine iCalendarView.get, which          *)
(* authorizes the request, looks the entity up, awaits the calendar        *)
(* service and serializes the events.  The coroutine has one suspension    *)
(* point (the await of the service call), so it is two atomic steps:       *)
(* GetBegin (lines 59-110) and GetResume (lines 112-200).                  *)
(*                                                                         *)
(* Text is a sequence of one-character strings, so that escaping, folding, *)
(* trimming, timestamp parsing and formatting are computed on characters.  *)
(***************************************************************************)
EXTENDS Integers, Sequences, FiniteSets, TLC

VARIABLES
    registered,   \* async_setup's return value: whether the view was registered
    calendars,    \* iCalendarView.calendars
    colours,      \* iCalendarView.colours (None when the config has no "colours")
    self_state,   \* iCalendarView._state, an attribute of the one shared instance
    req,          \* per request: the coroutine's position, arguments, locals, response
    hass_calls,   \* the calls made to hass (states.get, services.async_call), in order
    log           \* the _LOGGER.error records, in order

vars == <<registered, calendars, colours, self_state, req, hass_calls, log>>

----------------------------------------------------------------------------
(* Python values *)

None == [t |-> "none"]
Absent == [t |-> "absent"]          \* a key that a dict does not hold
PyString(cs) == [t |-> "str", v |-> cs]
PyInt(n) == [t |-> "int", n |-> n]
PyList(items) == [t |-> "list", v |-> items]

Digits == <<"0", "1", "2", "3", "4", "5", "6", "7", "8", "9">>

RECURSIVE Decimal(_)
Decimal(n) == IF n < 10 THEN <<Digits[n + 1]>>
              ELSE Decimal(n \div 10) \o <<Digits[(n % 10) + 1]>>

\* str(x), and the {x} of an f-string
PyStr(x) == CASE x.t = "str" -> x.v
              [] x.t = "int" -> Decimal(x.n)
              [] OTHER -> <<"N", "o", "n", "e">>

\* str.replace(old, new) for a one-character old
RECURSIVE Replace(_, _, _)
Replace(cs, old, new) ==
    IF cs = <<>> THEN <<>>
    ELSE (IF Head(cs) = old THEN new ELSE <<Head(cs)>>) \o Replace(Tail(cs), old, new)

\* html.escape(s, quote=True): five replacements, the ampersand first
escape(cs) ==
    Replace(Replace(Replace(Replace(Replace(cs,
        "&", <<"&", "a", "m", "p", ";">>),
        "<", <<"&", "l", "t", ";">>),
        ">", <<"&", "g", "t", ";">>),
        "\"", <<"&", "q", "u", "o", "t", ";">>),
        "'", <<"&", "#", "x", "2", "7", ";">>)

Whitespace == {" ", "\n", "\t", "\r"}

RECURSIVE rstrip(_)
rstrip(cs) == IF cs # <<>> /\ cs[Len(cs)] \in Whitespace
              THEN rstrip(SubSeq(cs, 1, Len(cs) - 1))
              ELSE cs

startswith(cs, prefix) ==
    Len(cs) >= Len(prefix) /\ SubSeq(cs, 1, Len(prefix)) = prefix

CalendarPrefix == <<"c", "a", "l", "e", "n", "d", "a", "r", ".">>

----------------------------------------------------------------------------
(* datetime.strptime and strftime, on characters *)

IsDigit(c) == \E i \in 1..10 : Digits[i] = c
DigitVal(c) == (CHOOSE i \in 1..10 : Digits[i] = c) - 1
AllDigits(cs) == \A i \in 1..Len(cs) : IsDigit(cs[i])

RECURSIVE Num(_)
Num(cs) == IF cs = <<>> THEN 0
           ELSE 10 * Num(SubSeq(cs, 1, Len(cs) - 1)) + DigitVal(cs[Len(cs)])

Field(cs, a, b) == SubSeq(cs, a, b)

ParseFailed == [ok |-> FALSE]

\* the "%Y-%m-%d" part, at the head of cs
DateShape(cs) ==
    /\ Len(cs) >= 10
    /\ AllDigits(Field(cs, 1, 4)) /\ cs[5] = "-"
    /\ AllDigits(Field(cs, 6, 7)) /\ cs[8] = "-"
    /\ AllDigits(Field(cs, 9, 10))
    /\ Num(Field(cs, 6, 7)) \in 1..12
    /\ Num(Field(cs, 9, 10)) \in 1..31

\* the "T%H:%M:%S" part, after the date
TimeShape(cs) ==
    /\ Len(cs) >= 19
    /\ cs[11] = "T"
    /\ AllDigits(Field(cs, 12, 13)) /\ cs[14] = ":"
    /\ AllDigits(Field(cs, 15, 16)) /\ cs[17] = ":"
    /\ AllDigits(Field(cs, 18, 19))
    /\ Num(Field(cs, 12, 13)) \in 0..23
    /\ Num(Field(cs, 15, 16)) \in 0..59
    /\ Num(Field(cs, 18, 19)) \in 0..61

\* the "%z" part: "Z", or a sign and HH:MM
ZoneShape(cs) ==
    \/ Len(cs) = 20 /\ cs[20] = "Z"
    \/ /\ Len(cs) = 25
       /\ cs[20] \in {"+", "-"}
       /\ AllDigits(Field(cs, 21, 22)) /\ cs[23] = ":"
       /\ AllDigits(Field(cs, 24, 25))
       /\ Num(Field(cs, 24, 25)) \in 0..59

\* minutes east of UTC
ZoneOffset(cs) ==
    IF Len(cs) = 20 THEN 0
    ELSE (IF cs[20] = "-" THEN -1 ELSE 1)
         * (60 * Num(Field(cs, 21, 22)) + Num(Field(cs, 24, 25)))

\* datetime.datetime.strptime(cs, "%Y-%m-%dT%H:%M:%S%z")
strptime_datetime(cs) ==
    IF DateShape(cs) /\ TimeShape(cs) /\ ZoneShape(cs)
    THEN [ok |-> TRUE,
          year |-> Num(Field(cs, 1, 4)), month |-> Num(Field(cs, 6, 7)),
          day |-> Num(Field(cs, 9, 10)), hour |-> Num(Field(cs, 12, 13)),
          minute |-> Num(Field(cs, 15, 16)), second |-> Num(Field(cs, 18, 19)),
          utcoffset |-> ZoneOffset(cs)]
    ELSE ParseFailed

\* datetime.datetime.strptime(cs, "%Y-%m-%d")
strptime_date(cs) ==
    IF DateShape(cs) /\ Len(cs) = 10
    THEN [ok |-> TRUE,
          year |-> Num(Field(cs, 1, 4)), month |-> Num(Field(cs, 6, 7)),
          day |-> Num(Field(cs, 9, 10)), hour |-> 0, minute |-> 0, second |-> 0]
    ELSE ParseFailed

Pad2(n) == <<Digits[(n \div 10) + 1], Digits[(n % 10) + 1]>>
Pad4(n) == Pad2(n \div 100) \o Pad2(n % 100)

\* dt.strftime("%Y%m%d"): the fields of dt as they stand
strftime_date(dt) == Pad4(dt.year) \o Pad2(dt.month) \o Pad2(dt.day)

\* dt.strftime("%Y%m%dT%H%M%SZ"): the fields of dt as they stand (strftime
\* converts nothing; the Z is a literal of the format string)
strftime_datetime(dt) ==
    strftime_date(dt) \o <<"T">> \o Pad2(dt.hour) \o Pad2(dt.minute)
        \o Pad2(dt.second) \o <<"Z">>

\* lines 134-149: the normalized start, end and dtstamp of an event; the
\* bare except sends every failure of the first form to the date-only form,
\* whose own failure (a ValueError) leaves the handler
EventTimes(e) ==
    LET s1 == strptime_datetime(e.start)
        e1 == strptime_datetime(e.end)
        s2 == strptime_date(e.start)
        e2 == strptime_date(e.end)
    IN  IF s1.ok /\ e1.ok
        THEN [ok |-> TRUE, start |-> strftime_datetime(s1),
              end |-> strftime_datetime(e1), dtstamp |-> strftime_datetime(s1)]
        ELSE IF s2.ok /\ e2.ok
        THEN [ok |-> TRUE, start |-> strftime_date(s2), end |-> strftime_date(e2),
              dtstamp |-> strftime_date(s2) \o <<"T", "0", "0", "0", "0", "0", "0">>]
        ELSE [ok |-> FALSE]

----------------------------------------------------------------------------
(* The feed serializer: lines 119-197 of get *)

\* one line of the body, "NAME:value" (the value keeps its embedded newlines)
Line(name, value) == [name |-> name, value |-> value]

\* hashlib.sha256(cs.encode('utf-8')).hexdigest(): the digest is kept as its
\* preimage under a tag, i.e. SHA-256 is taken to be injective
sha256_hexdigest(cs) == <<"sha256">> \o cs

\* .replace('\n', '\n ').rstrip() of lines 169, 176, 183
FoldAndTrim(cs) == rstrip(Replace(cs, "\n", <<"\n", " ">>))

\* lines 152-155: the escaped summary, or None
EventSummary(e) ==
    IF e.summary # Absent /\ e.summary # None
    THEN PyString(escape(e.summary.v))
    ELSE None

\* line 157: the string that is hashed
UidInput(entity_id, start, end, summary) ==
    entity_id \o <<"-">> \o start \o <<"-">> \o end \o <<"-">> \o PyStr(summary)

\* lines 171-183: an optional text property
OptionalText(name, value) ==
    IF value # Absent /\ value # None
    THEN <<Line(name, FoldAndTrim(escape(value.v)))>>
    ELSE <<>>

\* the loop with a break: only the first matching rule gives a COLOR line
RECURSIVE ColourLinesFirstOnly(_, _, _)
ColourLinesFirstOnly(cols, summary, i) ==
    IF i > Len(cols) THEN <<>>
    ELSE IF cols[i].name # Absent /\ cols[i].name = summary
    THEN <<Line("COLOR", PyStr(cols[i].colour))>>
    ELSE ColourLinesFirstOnly(cols, summary, i + 1)

\* lines 189-191, from rule i on: one COLOR line per rule whose name equals
\* the summary
RECURSIVE ColourLines(_, _, _)
ColourLines(cols, summary, i) ==
    IF i > Len(cols) THEN <<>>
    ELSE (IF cols[i].name # Absent /\ cols[i].name = summary
          THEN <<Line("COLOR", PyStr(cols[i].colour))>>
          ELSE <<>>) \o ColourLines(cols, summary, i + 1)

\* line 189 raises TypeError when self.colours is None; line 191 raises
\* KeyError when a matching rule holds no "colour"
ColoursRaise(cols, summary) ==
    \/ cols = None
    \/ \E i \in 1..Len(cols.v) :
          /\ cols.v[i].name # Absent /\ cols.v[i].name = summary
          /\ cols.v[i].colour = Absent

\* lines 133-194 for one event: the VEVENT block, or the exception
EventBlock(e, entity_id, cols) ==
    LET t == EventTimes(e)
        summary == EventSummary(e)
    IN  IF ~t.ok \/ ColoursRaise(cols, summary)
        THEN [ok |-> FALSE, lines |-> <<>>]
        ELSE [ok |-> TRUE,
              lines |->
                <<Line("BEGIN", <<"VEVENT">>),
                  Line("UID", sha256_hexdigest(UidInput(entity_id, t.start, t.end, summary))),
                  Line("DTSTAMP", t.dtstamp),
                  Line("DTSTART", t.start),
                  Line("DTEND", t.end)>>
                \o (IF summary # None
                    THEN <<Line("SUMMARY", FoldAndTrim(summary.v))>> ELSE <<>>)
                \o OptionalText("DESCRIPTION", e.description)
                \o OptionalText("LOCATION", e.location)
                \o ColourLines(cols.v, summary, 1)
                \o <<Line("END", <<"VEVENT">>)>>]

\* the loop of line 133, from event i on
RECURSIVE EventBlocks(_, _, _, _)
EventBlocks(events, entity_id, cols, i) ==
    IF i > Len(events) THEN [ok |-> TRUE, lines |-> <<>>]
    ELSE LET b == EventBlock(events[i], entity_id, cols)
             rest == EventBlocks(events, entity_id, cols, i + 1)
         IN  IF b.ok /\ rest.ok
             THEN [ok |-> TRUE, lines |-> b.lines \o rest.lines]
             ELSE [ok |-> FALSE, lines |-> <<>>]

\* lines 119-127: the envelope header; state is the value of self._state
FeedHeader(state, entity_id, calendar_colour) ==
    <<Line("BEGIN", <<"VCALENDAR">>),
      Line("VERSION", <<"2.0">>),
      Line("PRODID", <<"-//Home Assistant//iCal Subscription 1.0//EN">>),
      Line("CALSCALE", <<"GREGORIAN">>),
      Line("METHOD", <<"PUBLISH">>),
      Line("ORGANIZER", <<"CN=", "\"">> \o escape(state.attributes.friendly_name)
                        \o <<"\"", ":MAILTO:">> \o entity_id
                        \o <<"@homeassistant.local">>),
      Line("NAME", escape(state.attributes.friendly_name))>>
    \o (IF calendar_colour # None
        THEN <<Line("COLOR", PyStr(calendar_colour))>> ELSE <<>>)

\* the responses
TextResponse(status, text) ==
    [status |-> status, content_type |-> "text/plain", body |-> <<Line("text", <<text>>)>>]
Forbidden == TextResponse(403, "403: Forbidden")
Unauthorized == TextResponse(401, "401: Unauthorized")
NotFound == TextResponse(404, "404: Not Found")
\* an exception that leaves the handler: the server answers 500
ServerError == TextResponse(500, "500: Internal Server Error")
CalendarResponse(body) ==
    [status |-> 200, content_type |-> "text/calendar", body |-> body]

\* lines 119-200: the response built from the event list; an AttributeError
\* when self._state is None, or an exception of the event loop, ends in 500
Serialize(state, entity_id, calendar_colour, events, cols) ==
    LET blocks == EventBlocks(events, escape(entity_id), cols, 1)
    IN  IF state = None \/ ~blocks.ok
        THEN ServerError
        ELSE CalendarResponse(FeedHeader(state, entity_id, calendar_colour)
                              \o blocks.lines
                              \o <<Line("END", <<"VCALENDAR">>)>>)

----------------------------------------------------------------------------
(* Authorization: lines 59-93 of get *)

\* line 70
CalendarMatches(cal, entity_id) ==
    (cal.entity_id # Absent /\ cal.entity_id = PyString(entity_id)) /\ cal.secret # Absent

\* the loop without its break: the last matching entry wins
FindCalendarLast(cals, entity_id) ==
    LET hits == {i \in 1..Len(cals) : CalendarMatches(cals[i], entity_id)}
    IN  IF hits = {}
        THEN [valid_calendar |-> FALSE, secret |-> None, calendar_colour |-> None]
        ELSE LET cal == cals[CHOOSE i \in hits : \A j \in hits : i >= j]
             IN  [valid_calendar |-> TRUE,
                  secret |-> cal.secret,
                  calendar_colour |-> IF cal.colour # Absent THEN cal.colour ELSE None]

\* lines 67-75: the loop stops at the first matching entry
FindCalendar(cals, entity_id) ==
    LET hits == {i \in 1..Len(cals) : CalendarMatches(cals[i], entity_id)}
    IN  IF hits = {}
        THEN [valid_calendar |-> FALSE, secret |-> None, calendar_colour |-> None]
        ELSE LET cal == cals[CHOOSE i \in hits : \A j \in hits : i <= j]
             IN  [valid_calendar |-> TRUE,
                  secret |-> cal.secret,
                  calendar_colour |-> IF cal.colour # Absent THEN cal.colour ELSE None]

\* line 82
SecretDiffers(s, secret) == PyStr(s) # PyStr(secret)

\* a test for any domain prefix instead of the calendar domain
NotACalendarAnyDomain(entity_id) == ~(\E i \in 1..Len(entity_id) : entity_id[i] = ".")

\* line 91
NotACalendar(entity_id) == ~startswith(entity_id, CalendarPrefix)

\* the checks with the prefix test moved before the secret comparison
AuthorizePrefixFirst(cals, entity_id, s) ==
    LET found == FindCalendar(cals, entity_id)
    IN  IF s = None
        THEN [ok |-> FALSE, message |-> "without secret", response |-> Forbidden,
              calendar_colour |-> None]
        ELSE IF found.valid_calendar # TRUE
        THEN [ok |-> FALSE, message |-> "not allowed by config", response |-> Forbidden,
              calendar_colour |-> None]
        ELSE IF NotACalendar(entity_id)
        THEN [ok |-> FALSE, message |-> "not a calendar", response |-> Forbidden,
              calendar_colour |-> None]
        ELSE IF SecretDiffers(s, found.secret)
        THEN [ok |-> FALSE, message |-> "invalid secret", response |-> Unauthorized,
              calendar_colour |-> None]
        ELSE [ok |-> TRUE, message |-> "", response |-> None,
              calendar_colour |-> found.calendar_colour]

\* lines 59-93: the first failing check decides; s is request.query.get("s")
Authorize(cals, entity_id, s) ==
    LET found == FindCalendar(cals, entity_id)
    IN  IF s = None
        THEN [ok |-> FALSE, message |-> "without secret", response |-> Forbidden,
              calendar_colour |-> None]
        ELSE IF found.valid_calendar # TRUE
        THEN [ok |-> FALSE, message |-> "not allowed by config", response |-> Forbidden,
              calendar_colour |-> None]
        ELSE IF SecretDiffers(s, found.secret)
        THEN [ok |-> FALSE, message |-> "invalid secret", response |-> Unauthorized,
              calendar_colour |-> None]
        ELSE IF NotACalendar(entity_id)
        THEN [ok |-> FALSE, message |-> "not a calendar", response |-> Forbidden,
              calendar_colour |-> None]
        ELSE [ok |-> TRUE, message |-> "", response |-> None,
              calendar_colour |-> found.calendar_colour]

----------------------------------------------------------------------------
(* The collaborators: Home Assistant's state machine and the clock *)

CalA == CalendarPrefix \o <<"a">>
CalB == CalendarPrefix \o <<"b">>
CalGone == CalendarPrefix \o <<"c">>          \* configured, but no such entity
Sensor == <<"s", "e", "n", "s", "o", "r", ".", "x">>

HassState(friendly_name) == [attributes |-> [friendly_name |-> friendly_name]]

\* hass.states.get(entity_id)
StatesGet(entity_id) ==
    IF entity_id = CalA THEN HassState(<<"A", "&", "A">>)
    ELSE IF entity_id = CalB THEN HassState(<<"B">>)
    ELSE IF entity_id = Sensor THEN HassState(<<"X">>)
    ELSE None

\* datetime.datetime.now(), in weeks
Clock == {2900}
LookBackWeeks == 4
LookAheadWeeks == 52

\* the return value of calendar.get_events: None, or a dict keyed by entity id
ServiceDict(entity_id, events) == [t |-> "dict", v |-> (entity_id :> [events |-> events])]

----------------------------------------------------------------------------
(* The state machine *)

IdleRequest ==
    [pc |-> "idle", entity_id |-> <<>>, s |-> None, calendar_colour |-> None,
     events |-> None, response |-> None]

\* async_setup (lines 23-40) and __init__ (lines 49-54): config is
\* config[DOMAIN]; the view is registered only when it holds "calendars"
async_setup(config, requests) ==
    /\ registered = (config.calendars # Absent)
    /\ calendars = (IF config.calendars # Absent THEN config.calendars ELSE None)
    /\ colours = (IF config.colours # Absent THEN config.colours ELSE None)
    /\ self_state = Absent
    /\ req = [r \in requests |-> IdleRequest]
    /\ hass_calls = <<>>
    /\ log = <<>>

LogError(message, entity_id) == [message |-> message, entity_id |-> entity_id]

\* get up to its await (lines 59-110), for a request that is dispatched to
\* the view: authorization, the state lookup and the start of the service call
GetBegin(r, entity_id, s, now) ==
    /\ registered
    /\ req[r].pc = "idle"
    /\ LET a == Authorize(calendars.v, entity_id, s)
           state == StatesGet(entity_id)
           arrived == [req[r] EXCEPT !.entity_id = entity_id, !.s = s]
       IN  IF ~a.ok
           THEN /\ req' = [req EXCEPT ![r] =
                             [arrived EXCEPT !.pc = "done", !.response = a.response]]
                /\ log' = Append(log, LogError(a.message, entity_id))
                /\ UNCHANGED <<self_state, hass_calls>>
           ELSE IF state = None
           THEN /\ self_state' = state
                /\ hass_calls' = Append(hass_calls,
                                    [call |-> "states.get", r |-> r, entity_id |-> entity_id])
                /\ req' = [req EXCEPT ![r] =
                             [arrived EXCEPT !.pc = "done", !.response = NotFound,
                                             !.calendar_colour = a.calendar_colour]]
                /\ log' = Append(log, LogError("could not be found", entity_id))
           ELSE /\ self_state' = state
                /\ hass_calls' = hass_calls \o
                     <<[call |-> "states.get", r |-> r, entity_id |-> entity_id],
                       [call |-> "calendar.get_events", r |-> r, entity_id |-> entity_id,
                        start_date_time |-> now - LookBackWeeks,
                        end_date_time |-> now + LookAheadWeeks]>>
                /\ req' = [req EXCEPT ![r] =
                             [arrived EXCEPT !.pc = "awaiting",
                                             !.calendar_colour = a.calendar_colour]]
                /\ UNCHANGED log
    /\ UNCHANGED <<registered, calendars, colours>>

\* line 112
NoEvents(events, entity_id) ==
    events = None \/ entity_id \notin DOMAIN events.v

\* get from its await on (lines 112-200): events is what the service returned
GetResume(r, events) ==
    /\ req[r].pc = "awaiting"
    /\ LET entity_id == req[r].entity_id
       IN  IF NoEvents(events, entity_id)
           THEN /\ req' = [req EXCEPT ![r].pc = "done", ![r].events = events,
                                       ![r].response = NotFound]
                /\ log' = Append(log, LogError("has no events", entity_id))
           ELSE /\ req' = [req EXCEPT ![r].pc = "done", ![r].events = events,
                             ![r].response =
                                 Serialize(self_state, entity_id, req[r].calendar_colour,
                                           events.v[entity_id].events, colours)]
                /\ UNCHANGED log
    /\ UNCHANGED <<registered, calendars, colours, self_state, hass_calls>>

----------------------------------------------------------------------------
(* Inputs *)

Red == PyString(<<"r", "e", "d">>)
Blue == PyString(<<"b", "l", "u", "e">>)
Key1 == <<"k", "1">>
Key7 == <<"7">>
Dentist == <<"D", "e", "n", "t", "i", "s", "t">>

CalendarEntry(entity_id, secret, colour) ==
    [entity_id |-> entity_id, secret |-> secret, colour |-> colour]
ColourRule(name, colour) == [name |-> name, colour |-> colour]
Config(cals, cols) == [calendars |-> cals, colours |-> cols]
Event(start, end, summary, description, location) ==
    [start |-> start, end |-> end, summary |-> summary,
     description |-> description, location |-> location]

\* "2024-03-DD", "2024-03-DDTHH:00:00" and the zone suffixes
IsoDate(day) == <<"2", "0", "2", "4", "-", "0", "3", "-">> \o Pad2(day)
IsoTime(day, hour) == IsoDate(day) \o <<"T">> \o Pad2(hour) \o <<":", "0", "0", ":", "0", "0">>
IsoZone(offset) ==
    IF offset = 0 THEN <<"+", "0", "0", ":", "0", "0">>
    ELSE <<(IF offset < 0 THEN "-" ELSE "+")>>
         \o Pad2((IF offset < 0 THEN -offset ELSE offset) \div 60) \o <<":">>
         \o Pad2((IF offset < 0 THEN -offset ELSE offset) % 60)

\* the event of the spec's scenario: 10:00 to 11:00 UTC on 1 March 2024
DentistEvent ==
    Event(IsoTime(1, 10) \o IsoZone(0), IsoTime(1, 11) \o IsoZone(0),
          PyString(Dentist), Absent, Absent)

\* sequences over S of length at most n
RECURSIVE SeqsUpTo(_, _)
SeqsUpTo(S, n) ==
    IF n = 0 THEN {<<>>}
    ELSE LET shorter == SeqsUpTo(S, n - 1)
         IN  shorter \cup {Append(q, x) : q \in shorter, x \in S}

----------------------------------------------------------------------------
(* Spec: concurrent requests to one view *)

NumRequests == 2

SpecConfigs ==
    {Config(PyList(<<CalendarEntry(PyString(CalA), PyString(Key1), Red),
                     CalendarEntry(PyString(CalB), PyString(Key1), Absent),
                     CalendarEntry(PyString(CalGone), PyString(Key1), Absent)>>),
            PyList(<<ColourRule(PyString(Dentist), Red)>>))}

SpecResponses(entity_id) ==
    {None, ServiceDict(Sensor, <<>>), ServiceDict(entity_id, <<DentistEvent>>)}

Init == \E config \in SpecConfigs : async_setup(config, 1..NumRequests)

Next ==
    \/ \E r \in 1..NumRequests, entity_id \in {CalA, CalB, CalGone},
          s \in {None, PyString(Key1)}, now \in Clock :
          GetBegin(r, entity_id, s, now)
    \/ \E r \in 1..NumRequests :
          \E events \in SpecResponses(req[r].entity_id) : GetResume(r, events)

Spec == Init /\ [][Next]_vars

----------------------------------------------------------------------------
(* SpecAuth: one request against every small calendar list *)

MaxCals == 2

AuthEntries ==
    {CalendarEntry(entity_id, secret, colour) :
        entity_id \in {PyString(CalA), PyString(Sensor), Absent},
        secret \in {PyString(Key1), PyInt(7), Absent},
        colour \in {Red, Absent}}

AuthConfigs ==
    {Config(PyList(cals), PyList(<<>>)) : cals \in SeqsUpTo(AuthEntries, MaxCals)}
    \cup {Config(Absent, PyList(<<>>))}

AuthSecrets == {None, PyString(Key1), PyString(Key7), PyString(<<"z">>)}

InitAuth == \E config \in AuthConfigs : async_setup(config, {1})

NextAuth ==
    \/ \E entity_id \in {CalA, CalB, Sensor}, s \in AuthSecrets, now \in Clock :
          GetBegin(1, entity_id, s, now)
    \/ \E events \in {None, ServiceDict(req[1].entity_id, <<DentistEvent>>)} :
          GetResume(1, events)

SpecAuth == InitAuth /\ [][NextAuth]_vars

----------------------------------------------------------------------------
(* Reading a request and its response *)

Arrived(r) == req[r].pc # "idle"
Done(r) == req[r].pc = "done"
Status(r) == req[r].response.status
Body(r) == req[r].response.body
CallsOf(r) == {i \in 1..Len(hass_calls) : hass_calls[i].r = r}
Logged(message, entity_id) ==
    \E i \in 1..Len(log) : log[i] = LogError(message, entity_id)
LinesNamed(body, name) == SelectSeq(body, LAMBDA l : l.name = name)
Values(lines) == [i \in 1..Len(lines) |-> lines[i].value]

\* the four checks of the gate, as the specification words them
SecretMissing(r) == req[r].s = None
ConfiguredEntries(r) ==
    {i \in 1..Len(calendars.v) :
        /\ calendars.v[i].entity_id # Absent
        /\ calendars.v[i].entity_id = PyString(req[r].entity_id)
        /\ calendars.v[i].secret # Absent}
UnknownCalendar(r) == ConfiguredEntries(r) = {}
FirstEntry(r) == CHOOSE i \in ConfiguredEntries(r) : \A j \in ConfiguredEntries(r) : i <= j
InvalidSecret(r) == PyStr(req[r].s) # PyStr(calendars.v[FirstEntry(r)].secret)
NotCalendarId(r) ==
    \/ Len(req[r].entity_id) < Len(CalendarPrefix)
    \/ \E i \in 1..Len(CalendarPrefix) : req[r].entity_id[i] # CalendarPrefix[i]

Refused(r, status, message) ==
    /\ Done(r)
    /\ Status(r) = status
    /\ Logged(message, req[r].entity_id)
    /\ CallsOf(r) = {}
Authorized(r) ==
    \/ req[r].pc = "awaiting"
    \/ Done(r) /\ Status(r) \notin {401, 403}

\* C1: the checks are applied in the order missing secret (403), unknown
\* calendar (403), invalid secret (401), not a calendar (403), and the first
\* one that fails decides the response; a request that fails none is let in.
C1_FirstFailingCheckDecides ==
    \A r \in DOMAIN req : Arrived(r) =>
        IF SecretMissing(r) THEN Refused(r, 403, "without secret")
        ELSE IF UnknownCalendar(r) THEN Refused(r, 403, "not allowed by config")
        ELSE IF InvalidSecret(r) THEN Refused(r, 401, "invalid secret")
        ELSE IF NotCalendarId(r) THEN Refused(r, 403, "not a calendar")
        ELSE Authorized(r)

\* a configured entity that is no calendar, asked for with a wrong secret,
\* is answered 401
C1_Witness ==
    \E r \in DOMAIN req :
        /\ Arrived(r) /\ ~SecretMissing(r) /\ ~UnknownCalendar(r)
        /\ InvalidSecret(r) /\ NotCalendarId(r)
        /\ Status(r) = 401

\* C2: the state lookup, the get_events call and a 200 body happen only for
\* a request that passed all four checks; a request answered 401 or 403 made
\* no call to hass and its body is the plain error text.
C2_NoDataBeforeAuthorization ==
    \A r \in DOMAIN req :
        /\ (CallsOf(r) # {} \/ (Done(r) /\ Status(r) = 200)) =>
               /\ ~SecretMissing(r) /\ ~UnknownCalendar(r)
               /\ ~InvalidSecret(r) /\ ~NotCalendarId(r)
        /\ (Done(r) /\ Status(r) \in {401, 403}) =>
               /\ CallsOf(r) = {}
               /\ \A i \in 1..Len(Body(r)) : Body(r)[i].name = "text"

\* a served request: the state lookup and the service call were made, and
\* the list also holds an entry for an entity that is no calendar
C2_Witness ==
    \E r \in DOMAIN req :
        /\ Done(r) /\ Status(r) = 200
        /\ Cardinality(CallsOf(r)) = 2
        /\ \E i \in 1..Len(calendars.v) : calendars.v[i].entity_id = PyString(Sensor)

EntryColour(i) ==
    IF calendars.v[i].colour # Absent THEN <<PyStr(calendars.v[i].colour)>> ELSE <<>>
IsEntryOf(r, i) ==
    /\ calendars.v[i].entity_id # Absent
    /\ calendars.v[i].secret # Absent
    /\ calendars.v[i].entity_id = PyString(req[r].entity_id)
    /\ req[r].s = PyString(PyStr(calendars.v[i].secret))
ProceedsWith(r, i) ==
    /\ Authorized(r)
    /\ req[r].calendar_colour =
           (IF calendars.v[i].colour # Absent THEN calendars.v[i].colour ELSE None)
    /\ (Done(r) /\ Status(r) = 200) =>
           Values(LinesNamed(Body(r), "COLOR")) = EntryColour(i)

\* C3 as claimed: a request with the entity id and secret of any entry of the
\* calendar list passes authorization and proceeds with that entry's colour.
C3_EveryEntryAuthorizes ==
    \A r \in DOMAIN req : Arrived(r) =>
        \A i \in 1..Len(calendars.v) : IsEntryOf(r, i) => ProceedsWith(r, i)

\* C3 as amended: the same, for an entry whose entity id begins with
\* "calendar." and which is the first entry of the list that holds this
\* entity id and a secret.
C3_FirstCalendarEntryAuthorizes ==
    \A r \in DOMAIN req : Arrived(r) =>
        \A i \in 1..Len(calendars.v) :
            (/\ IsEntryOf(r, i)
             /\ ~NotCalendarId(r)
             /\ \A j \in 1..(i - 1) :
                   ~(/\ calendars.v[j].entity_id # Absent
                     /\ calendars.v[j].entity_id = calendars.v[i].entity_id
                     /\ calendars.v[j].secret # Absent))
            => ProceedsWith(r, i)

\* two entries for one calendar with different secrets and colours: the
\* request with the first entry's secret is served with the first's colour
C3_Witness ==
    \E r \in DOMAIN req :
        /\ Done(r) /\ Status(r) = 200
        /\ Len(calendars.v) = 2
        /\ IsEntryOf(r, 1)
        /\ calendars.v[2].entity_id = calendars.v[1].entity_id
        /\ calendars.v[2].secret # Absent
        /\ calendars.v[2].secret # calendars.v[1].secret
        /\ calendars.v[1].colour = Red /\ calendars.v[2].colour = Absent
        /\ Values(LinesNamed(Body(r), "COLOR")) = <<PyStr(Red)>>

----------------------------------------------------------------------------
(* C4, under Spec *)

OwnName(r) == escape(StatesGet(req[r].entity_id).attributes.friendly_name)

\* C4: a feed is built from the request's own calendar state whatever other
\* requests run meanwhile: the NAME and ORGANIZER lines of every 200 response
\* hold the display name of the calendar that this request asked for.
C4_ResponseFromOwnState ==
    \A r \in DOMAIN req :
        (Done(r) /\ Status(r) = 200) =>
            /\ Values(LinesNamed(Body(r), "NAME")) = <<OwnName(r)>>
            /\ Values(LinesNamed(Body(r), "ORGANIZER")) =
                   << <<"CN=", "\"">> \o OwnName(r) \o <<"\"", ":MAILTO:">>
                      \o req[r].entity_id \o <<"@homeassistant.local">> >>

----------------------------------------------------------------------------
(* SpecFeed: one authorized request, every small rule list and event list *)

MaxRules == 2
MaxEvents == 2

Lt == <<"<">>
FeedRules ==
    {ColourRule(PyString(Dentist), Red), ColourRule(PyString(Dentist), Blue),
     ColourRule(Absent, Red), ColourRule(PyString(Lt), Red),
     ColourRule(PyString(escape(Lt)), Blue)}

FeedConfigs ==
    {Config(PyList(<<CalendarEntry(PyString(CalA), PyString(Key1), Red),
                     CalendarEntry(PyString(CalGone), PyString(Key1), Absent)>>),
            cols) :
        cols \in {Absent} \cup {PyList(rules) : rules \in SeqsUpTo(FeedRules, MaxRules)}}

\* 1 March 2024, 10:00 to 11:00 UTC, with each kind of summary; and an event
\* whose end is no timestamp of either form
FeedEvents ==
    {Event(IsoTime(1, 10) \o IsoZone(0), IsoTime(1, 11) \o IsoZone(0), summary, Absent, Absent) :
        summary \in {Absent, None, PyString(Dentist), PyString(Lt)}}
    \cup {Event(IsoDate(1), <<"?">>, PyString(Dentist), Absent, Absent)}

FeedResponses(entity_id) ==
    {None, ServiceDict(Sensor, <<>>)}
    \cup {ServiceDict(entity_id, events) : events \in SeqsUpTo(FeedEvents, MaxEvents)}

InitFeed == \E config \in FeedConfigs : async_setup(config, {1})

NextFeed ==
    \/ \E entity_id \in {CalA, CalGone}, now \in Clock :
          GetBegin(1, entity_id, PyString(Key1), now)
    \/ \E events \in FeedResponses(req[1].entity_id) : GetResume(1, events)

SpecFeed == InitFeed /\ [][NextFeed]_vars

\* the event list a request received
EventsOf(r) == req[r].events.v[req[r].entity_id].events
GotEvents(r) == Done(r) /\ ~NoEvents(req[r].events, req[r].entity_id)

\* C5: for an authorized request every fetch failure ends in 404: the entity
\* state is missing, the service returned nothing, its answer lacks the
\* calendar id, or the calendar's event list is empty.
C5_FetchFailuresAre404 ==
    \A r \in DOMAIN req :
        (/\ Done(r) /\ Status(r) \notin {401, 403}
         /\ \/ StatesGet(req[r].entity_id) = None
            \/ NoEvents(req[r].events, req[r].entity_id)
            \/ EventsOf(r) = <<>>)
        => Status(r) = 404

\* the k-th VEVENT block of a body: from its BEGIN line to its END line
BlockStarts(body) ==
    {i \in 1..Len(body) : body[i].name = "BEGIN" /\ body[i].value = <<"VEVENT">>}
BlockStart(body, k) ==
    CHOOSE i \in BlockStarts(body) :
        Cardinality({j \in BlockStarts(body) : j <= i}) = k
BlockEnd(body, k) ==
    CHOOSE i \in BlockStart(body, k)..Len(body) :
        /\ body[i].name = "END"
        /\ \A j \in BlockStart(body, k)..(i - 1) : body[j].name # "END"
Block(body, k) == SubSeq(body, BlockStart(body, k), BlockEnd(body, k))

\* the colours of the rules named like the event's escaped summary, in order
MatchingColours(e) ==
    IF e.summary = Absent \/ e.summary = None THEN <<>>
    ELSE LET hits == SelectSeq(colours.v,
                        LAMBDA c : c.name # Absent /\ c.name.v = escape(e.summary.v))
         IN  [i \in 1..Len(hits) |-> PyStr(hits[i].colour)]

\* C9: in a 200 feed there is one VEVENT block per event, and the COLOR lines
\* of an event's block are the colours of the rules whose name equals the
\* event's escaped summary, one line per such rule, in rule order; none when
\* no rule matches or the event has no summary.
C9_ColourLinePerMatchingRule ==
    \A r \in DOMAIN req : (Done(r) /\ Status(r) = 200) =>
        /\ Cardinality(BlockStarts(Body(r))) = Len(EventsOf(r))
        /\ \A k \in 1..Len(EventsOf(r)) :
              Values(LinesNamed(Block(Body(r), k), "COLOR")) = MatchingColours(EventsOf(r)[k])

\* two rules named Dentist: the Dentist event's block holds both colours
C9_Witness ==
    \E r \in DOMAIN req :
        /\ Done(r) /\ Status(r) = 200
        /\ Len(EventsOf(r)) = 2
        /\ EventsOf(r)[1].summary = None
        /\ EventsOf(r)[2].summary = PyString(Dentist)
        /\ Values(LinesNamed(Block(Body(r), 1), "COLOR")) = <<>>
        /\ Values(LinesNamed(Block(Body(r), 2), "COLOR")) = <<PyStr(Red), PyStr(Blue)>>

\* C10: with no "colours" in the configuration, an authorized request whose
\* calendar exists and whose events are all well formed (and at least one)
\* ends in 200 with one VEVENT block per event and no COLOR line in a block.
C10_NoColoursStillServes ==
    \A r \in DOMAIN req :
        (/\ colours = None
         /\ GotEvents(r)
         /\ EventsOf(r) # <<>>
         /\ \A k \in 1..Len(EventsOf(r)) : EventTimes(EventsOf(r)[k]).ok)
        => /\ Status(r) = 200
           /\ Cardinality(BlockStarts(Body(r))) = Len(EventsOf(r))
           /\ \A k \in 1..Len(EventsOf(r)) : LinesNamed(Block(Body(r), k), "COLOR") = <<>>

----------------------------------------------------------------------------
(* SpecText: one event whose three text properties hold every short text *)

MaxText == 3

TextAlphabet == {"a", ",", ";", "\\", "<", ">", "&", "\n", " "}
Texts == SeqsUpTo(TextAlphabet, MaxText)

TextConfig ==
    Config(PyList(<<CalendarEntry(PyString(CalA), PyString(Key1), Absent)>>), PyList(<<>>))

InitText == async_setup(TextConfig, {1})

NextText ==
    \/ \E now \in Clock : GetBegin(1, CalA, PyString(Key1), now)
    \/ \E text \in Texts :
          GetResume(1, ServiceDict(CalA,
              <<Event(IsoDate(1), IsoDate(2),
                      PyString(text), PyString(text), PyString(text))>>))

SpecText == InitText /\ [][NextText]_vars

\* RFC 5545 TEXT: a backslash opens one of the escapes \\ \, \; \n \N, and a
\* comma or semicolon stands only inside such an escape
RECURSIVE NoUnescapedReserved(_)
NoUnescapedReserved(cs) ==
    IF cs = <<>> THEN TRUE
    ELSE IF Head(cs) = "\\"
    THEN /\ Len(cs) >= 2
         /\ cs[2] \in {"\\", ",", ";", "n", "N"}
         /\ NoUnescapedReserved(SubSeq(cs, 3, Len(cs)))
    ELSE /\ Head(cs) \notin {",", ";"}
         /\ NoUnescapedReserved(Tail(cs))

\* every newline of the value opens a continuation line
NoBareNewline(cs) ==
    \A i \in 1..Len(cs) : cs[i] = "\n" => (i < Len(cs) /\ cs[i + 1] = " ")

Trimmed(cs) == cs = <<>> \/ cs[Len(cs)] \notin Whitespace

TextLines(body) ==
    SelectSeq(body, LAMBDA l : l.name \in {"SUMMARY", "DESCRIPTION", "LOCATION"})

\* C8: the value of every SUMMARY, DESCRIPTION and LOCATION line holds no
\* unescaped comma, semicolon or backslash and no bare newline, and is
\* trimmed of trailing whitespace.
C8_TextValuesEscaped ==
    \A r \in DOMAIN req : (Done(r) /\ Status(r) = 200) =>
        \A i \in 1..Len(TextLines(Body(r))) :
            /\ NoUnescapedReserved(TextLines(Body(r))[i].value)
            /\ NoBareNewline(TextLines(Body(r))[i].value)
            /\ Trimmed(TextLines(Body(r))[i].value)

----------------------------------------------------------------------------
(* SpecTime: one event with every pair of start and end strings *)

Days == {1, 2}
Hours == {0, 10, 23}
Offsets == {-120, 0, 90, 330}

TimeStrings ==
    {IsoDate(day) : day \in Days}
    \cup {IsoTime(day, hour) \o IsoZone(offset) :
             day \in Days, hour \in Hours, offset \in Offsets}
    \cup {IsoTime(1, 10) \o <<"Z">>, IsoTime(1, 10)}

InitTime == async_setup(TextConfig, {1})

NextTime ==
    \/ \E now \in Clock : GetBegin(1, CalA, PyString(Key1), now)
    \/ \E start \in TimeStrings, end \in TimeStrings :
          GetResume(1, ServiceDict(CalA, <<Event(start, end, Absent, Absent, Absent)>>))

SpecTime == InitTime /\ [][NextTime]_vars

\* the instant a "YYYY-MM-DDTHH:MM:SS+HH:MM" string denotes, and the instant
\* a "YYYYMMDDTHHMMSSZ" value denotes, in seconds of UTC since the start of
\* the (leap) year 2024
DaysBefore(month) ==
    <<0, 31, 60, 91, 121, 152, 182, 213, 244, 274, 305, 335>>[month]
SecondsOf(month, day, hour, minute, second) ==
    (((DaysBefore(month) + day - 1) * 24 + hour) * 60 + minute) * 60 + second
InstantOfIso(cs) ==
    SecondsOf(Num(SubSeq(cs, 6, 7)), Num(SubSeq(cs, 9, 10)), Num(SubSeq(cs, 12, 13)),
              Num(SubSeq(cs, 15, 16)), Num(SubSeq(cs, 18, 19)))
    - 60 * (IF Len(cs) = 20 THEN 0
            ELSE (IF cs[20] = "-" THEN -1 ELSE 1)
                 * (60 * Num(SubSeq(cs, 21, 22)) + Num(SubSeq(cs, 24, 25))))
IsUtcStamp(cs) ==
    /\ Len(cs) = 16 /\ cs[9] = "T" /\ cs[16] = "Z"
    /\ AllDigits(SubSeq(cs, 1, 8)) /\ AllDigits(SubSeq(cs, 10, 15))
InstantOfUtcStamp(cs) ==
    SecondsOf(Num(SubSeq(cs, 5, 6)), Num(SubSeq(cs, 7, 8)), Num(SubSeq(cs, 10, 11)),
              Num(SubSeq(cs, 12, 13)), Num(SubSeq(cs, 14, 15)))
DenotesSameInstant(stamp, iso) ==
    /\ IsUtcStamp(stamp)
    /\ SubSeq(stamp, 1, 4) = SubSeq(iso, 1, 4)
    /\ InstantOfUtcStamp(stamp) = InstantOfIso(iso)
DateDigits(iso) == SubSeq(iso, 1, 4) \o SubSeq(iso, 6, 7) \o SubSeq(iso, 9, 10)

ValueOf(body, name) == LinesNamed(body, name)[1].value
TheEvent(r) == EventsOf(r)[1]

\* C7: a date-only event gives DTSTART and DTEND as the eight digits of the
\* date and DTSTAMP as that start date at midnight; an event with offset
\* timestamps gives Z-suffixed DTSTART, DTEND and DTSTAMP that denote the
\* same instants in UTC, DTSTAMP being the start.
C7_TimestampsNormalized ==
    \A r \in DOMAIN req : (Done(r) /\ Status(r) = 200) =>
        IF Len(TheEvent(r).start) = 10
        THEN /\ ValueOf(Body(r), "DTSTART") = DateDigits(TheEvent(r).start)
             /\ ValueOf(Body(r), "DTEND") = DateDigits(TheEvent(r).end)
             /\ ValueOf(Body(r), "DTSTAMP") =
                    DateDigits(TheEvent(r).start) \o <<"T", "0", "0", "0", "0", "0", "0">>
        ELSE /\ DenotesSameInstant(ValueOf(Body(r), "DTSTART"), TheEvent(r).start)
             /\ DenotesSameInstant(ValueOf(Body(r), "DTEND"), TheEvent(r).end)
             /\ ValueOf(Body(r), "DTSTAMP") = ValueOf(Body(r), "DTSTART")

----------------------------------------------------------------------------
(* SpecUid: two requests with one event each *)

UidConfig ==
    Config(PyList(<<CalendarEntry(PyString(CalA), PyString(Key1), Absent),
                    CalendarEntry(PyString(CalB), PyString(Key1), Absent)>>),
           PyList(<<>>))

UidTimes ==
    {<<IsoTime(1, 10) \o IsoZone(0), IsoTime(1, 11) \o IsoZone(0)>>,
     <<IsoTime(1, 10) \o IsoZone(0), IsoTime(1, 23) \o IsoZone(0)>>,
     <<IsoTime(1, 10) \o IsoZone(90), IsoTime(1, 11) \o IsoZone(0)>>,
     <<IsoDate(1), IsoDate(2)>>}
UidSummaries ==
    {Absent, None, PyString(<<"N", "o", "n", "e">>), PyString(<<"a">>), PyString(<<"a", "-">>)}
UidEvents ==
    {Event(t[1], t[2], summary, Absent, Absent) : t \in UidTimes, summary \in UidSummaries}

InitUid == async_setup(UidConfig, {1, 2})

NextUid ==
    \/ \E r \in {1, 2}, entity_id \in {CalA, CalB}, now \in Clock :
          GetBegin(r, entity_id, PyString(Key1), now)
    \/ \E r \in {1, 2} :
          \E e \in UidEvents : GetResume(r, ServiceDict(req[r].entity_id, <<e>>))

SpecUid == InitUid /\ [][NextUid]_vars

SameSummary(a, b) ==
    IF a \in {Absent, None} \/ b \in {Absent, None}
    THEN a \in {Absent, None} /\ b \in {Absent, None}
    ELSE a.v = b.v

\* C6: two serialized events have the same UID exactly when they agree on
\* the calendar id, the start, the end and the summary, an absent or null
\* summary being different from every summary text.
C6_UidIffSameInputs ==
    \A r1 \in DOMAIN req, r2 \in DOMAIN req :
        (Done(r1) /\ Status(r1) = 200 /\ Done(r2) /\ Status(r2) = 200) =>
            ((ValueOf(Body(r1), "UID") = ValueOf(Body(r2), "UID"))
             <=> /\ req[r1].entity_id = req[r2].entity_id
                 /\ TheEvent(r1).start = TheEvent(r2).start
                 /\ TheEvent(r1).end = TheEvent(r2).end
                 /\ SameSummary(TheEvent(r1).summary, TheEvent(r2).summary))

====
